---- MODULE Spec2Model ----
(***************************************************************************)
(* MALVADA report-curation pipeline: Error Classifier, Duplicate Resolver, *)
(* Sanitizer worker pool, Stats Aggregator and the Orchestrator that       *)
(* sequences them; the environ redaction and the term anonymization of the *)
(* Sanitizer as functions of their own.                                    *)
(*                                                                         *)
(* A report file is identified by its path (1..n, its position in the      *)
(* list glob returned).  The content of a report is abstracted to the      *)
(* fields the pipeline reads.                                              *)
(***************************************************************************)
EXTENDS Integers, Sequences, FiniteSets, TLC

\* ------------------------------------------------------------------ bounds
NumClsReports == 3      \* reports in the corpus of the Error Classifier runs
NumDupReports == 3      \* reports in the corpus of the Duplicate Resolver runs
NumHashes == 2          \* distinct sha512 values
MaxSize == 3            \* file sizes 1..MaxSize
NumSanReports == 3      \* reports in the corpus of the Sanitizer runs
MaxWorkers == 2         \* worker counts 1..MaxWorkers
NumPipeReports == 3     \* reports in the corpus of the pipeline runs
VtThreshold == 1        \* vt_positives_threshold of the runs
NumStatsReports == 3    \* reports in the corpus of the Stats Aggregator runs
NumLabelReports == 3    \* reports in the corpus of the label tally runs
MaxProcs == 5           \* records of behavior.processes of a report
MaxPositives == 2       \* target.file.virustotal.positives 0..MaxPositives
MaxDepth == 4           \* nesting depth of behavior.processtree below its root
MaxEntries == 1         \* records of behavior.processes in the redaction runs
MaxApplications == 2    \* times the environ redaction is applied
MaxTextLen == 3         \* characters of the report text in the anonymization runs
MaxTermLen == 2         \* characters of a term
MaxTerms == 2           \* lines of the terms file
NumRenFiles == 3        \* files of the directory given to the rename utility
NumSha256 == 2          \* distinct sha256 values

\* ------------------------------------------------------------------ state
VARIABLES
    files,          \* path -> content of the report file on disk
    loc,            \* path -> directory the file is in
    reports,        \* the list of paths handed to the running component
    pc,             \* position of the program
    err,            \* the uncaught exception that ended the run, or "none"
    strat,          \* duplicates_strat
    dup_i,          \* search_duplicates: index of the next json_file
    seen_values,    \* search_duplicates: hash -> first-seen path (0: unseen)
    duplicate_reports, \* hash -> sequence of [path, size] (<<>>: no group)
    group_order,    \* insertion order of the keys of duplicate_reports
    mv_g,           \* move_duplicate_reports: index of the current group
    mv_i,           \* move_duplicate_reports: inner loop index (1-based)
    mv_size,        \* move_duplicate_reports: size
    mv_index,       \* move_duplicate_reports: index (1-based)
    files_to_discard, \* move_duplicate_reports: files_to_discard
    cls_i,          \* Error Classifier main: index of the next json_file
    report_fatal,   \* ReportStats.report_fatal
    reports_no_processes,        \* ReportStats.reports_no_processes
    reports_no_hooked_functions, \* ReportStats.reports_no_hooked_functions
    reports_no_vt,               \* ReportStats.reports_no_vt
    reports_vt_error,            \* ReportStats.reports_vt_error
    reports_with_errors,         \* first list returned by the classifier
    reports_with_vt_errors,      \* second list returned by the classifier
    task,           \* Sanitizer: path -> state of the unit submitted for it
    workers,        \* Sanitizer: max_workers of the pool
    terms_ok,       \* Sanitizer: the terms file can be opened
    passed,         \* Orchestrator: the list handed to each phase so far
    stats,          \* Stats Aggregator: the ReportStats object
    st_i,           \* Stats Aggregator main: index of the next json_file
    stats_out,      \* Stats Aggregator: what write_results wrote, what main returned
    data,           \* environ redaction: the 'behavior' section being sanitized
    applied,        \* environ redaction: how many times it has been applied
    text,           \* anonymize_report: the text of the report file
    terms,          \* anonymize_report: the lines of the terms file
    sed_run,        \* anonymize_report: sed has been run
    original        \* path -> content of the file when the run started

dupVars == <<dup_i, seen_values, duplicate_reports, group_order, mv_g, mv_i,
             mv_size, mv_index, files_to_discard>>
clsLists == <<report_fatal, reports_no_processes, reports_no_hooked_functions,
              reports_no_vt, reports_vt_error>>
clsVars == <<cls_i, clsLists, reports_with_errors, reports_with_vt_errors>>
sanVars == <<task, workers, terms_ok>>
statVars == <<stats, st_i, stats_out>>
fnVars == <<data, applied, text, terms, sed_run, original>>
vars == <<files, loc, reports, pc, err, strat, dupVars, clsVars, sanVars, passed,
          statVars, fnVars>>

\* ------------------------------------------------------------------ helpers
Range(s) == {s[k] : k \in 1..Len(s)}

Hashes == 1..NumHashes

\* what can key seen_values and duplicate_reports: a hash, or 0 (no hash)
Keys == 0..NumHashes
Sizes == 1..MaxSize

Targets == {"absent", "nofile", "novt", "vterr", "ok"}
Behaviors == {"absent", "noprocs", "empty", "nocalls", "nohooks", "ok"}

\* The content of a report file, reduced to what the pipeline reads:
\*   parse       the file is valid JSON
\*   target      "absent": no 'target'; "nofile": no target.file; "novt": no
\*               target.file.virustotal; "vterr": virustotal has 'error'; "ok"
\*   behavior    "absent": no 'behavior'; "noprocs": no behavior.processes;
\*               "empty": processes = []; "nocalls": processes[0] lacks 'calls';
\*               "nohooks": processes[0].calls = []; "ok"
\*   sha512      target.file.sha512 (0: the field is missing)
\*   size        os.path.getsize of the file
\*   tree        behavior.processtree: "absent", "raw" (holds environ data) or
\*               "redacted"
\*   noise       one of SECTIONS_TO_DELETE is present
\*   environ     'environ' of the records of behavior.processes: "none", "raw"
\*               or "redacted"
\*   detections  "absent", "(n/a)" or "families"
\*   anonymized  sed has substituted the terms in the file
\*   calls       len(process['calls']) of each record of behavior.processes
\*   positives   target.file.virustotal.positives (-1: the field is missing)
\*   families    detection['family'] of each entry of 'detections'
\*   avclass     <<>>: no 'avclass_detection'; <<label>>: its value
\* A text is the sequence of its characters.
DefaultCalls(b) ==
    IF b = "ok" THEN <<1>> ELSE IF b \in {"nohooks", "nocalls"} THEN <<0>> ELSE <<>>

Raw(t, b, h, sz, tr) ==
    [parse |-> TRUE, target |-> t, behavior |-> b, sha512 |-> h, size |-> sz,
     tree |-> tr, noise |-> TRUE, environ |-> "raw", detections |-> "absent",
     anonymized |-> FALSE, calls |-> DefaultCalls(b),
     positives |-> IF t = "ok" THEN 1 ELSE -1, families |-> <<>>, avclass |-> <<>>]

\* a file that is not valid JSON
Unparseable == [Raw("absent", "absent", 0, 1, "absent") EXCEPT !.parse = FALSE]

RemoveBug(list, excluded) == list

\* malvada.py:95,102  [report for report in reports if report not in excluded]
Remove(list, excluded) ==
    LET Keep(p) == p \notin Range(excluded) IN SelectSeq(list, Keep)

\* ------------------------------------------------ initial values
ClsVarsInit ==
    /\ cls_i = 1
    /\ report_fatal = <<>>
    /\ reports_no_processes = <<>>
    /\ reports_no_hooked_functions = <<>>
    /\ reports_no_vt = <<>>
    /\ reports_vt_error = <<>>
    /\ reports_with_errors = <<>>
    /\ reports_with_vt_errors = <<>>

SanVarsInit ==
    /\ task = [p \in DOMAIN files |-> "none"]
    /\ workers = 0
    /\ terms_ok = FALSE

\* get_cape_reports_stats.py:42-65  ReportStats.__init__
NewStats(threshold) ==
    [total_reports_in_folder |-> 0,
     total_hooked_functions |-> 0,
     min_hooked_functions |-> <<>>,
     max_hooked_functions |-> <<0, 0>>,
     total_spawned_processes |-> 0,
     min_spawned_processes |-> <<>>,
     max_spawned_processes |-> <<0, 0>>,
     total_vt_positives |-> 0,
     min_vt_positives |-> <<>>,
     max_vt_positives |-> <<0, 0>>,
     no_vt_positives |-> <<>>,
     cape_detection_labels |-> <<>>,
     avclass_detection_labels |-> <<>>,
     reports_no_cape_consensus |-> <<>>,
     reports_no_avclass_consensus |-> <<>>,
     vt_positives_threshold |-> threshold]

\* nothing written, nothing returned
NoOutput == [written |-> FALSE, returned |-> FALSE]

StatVarsInit ==
    /\ stats = NewStats(0)
    /\ st_i = 1
    /\ stats_out = NoOutput

\* a node of a JSON value: a dict ('environ' absent, raw or redacted, and the
\* items of its 'children'), a list (its items) or a scalar
Node(kind, environ, children) ==
    [kind |-> kind, environ |-> environ, children |-> children]

Scalar == Node("scalar", "none", <<>>)

FnVarsInit ==
    /\ data = [processes |-> <<>>, processtree |-> Scalar]
    /\ applied = 0
    /\ text = <<>>
    /\ terms = <<>>
    /\ sed_run = FALSE
    /\ original = files

DupVarsInit ==
    /\ dup_i = 1
    /\ seen_values = [h \in Keys |-> 0]
    /\ duplicate_reports = [h \in Keys |-> <<>>]
    /\ group_order = <<>>
    /\ mv_g = 0
    /\ mv_i = 0
    /\ mv_size = 0
    /\ mv_index = 0
    /\ files_to_discard = <<>>

\* ------------------------------------------------------- Error Classifier
\* What process_report does with a report: the lists it appends the path to,
\* and whether it then raises KeyError.
Appends(cats) == [cats |-> cats, raises |-> FALSE]
RaisesKeyError == [cats |-> {}, raises |-> TRUE]

\* get_incorrect_cape_reports.py:74-78
VTCheck(r) ==
    IF r.target = "nofile" THEN RaisesKeyError
    ELSE IF r.target = "novt" THEN Appends({"no_vt"})
    ELSE IF r.target = "vterr" THEN Appends({"vt_error"})
    ELSE Appends({})

BehaviorChecksBug(r) ==
    IF r.behavior \in {"absent", "noprocs", "nocalls"} THEN RaisesKeyError
    ELSE IF r.behavior \in {"empty", "nohooks"} THEN Appends({"no_hooked_functions"})
    ELSE VTCheck(r)

BehaviorChecksNoReturn(r) ==
    IF r.behavior \in {"absent", "noprocs"} THEN RaisesKeyError
    ELSE IF r.behavior = "empty"
         THEN [cats |-> {"no_processes"} \cup VTCheck(r).cats, raises |-> VTCheck(r).raises]
    ELSE IF r.behavior = "nocalls" THEN RaisesKeyError
    ELSE IF r.behavior = "nohooks" THEN Appends({"no_hooked_functions"})
    ELSE VTCheck(r)

\* get_incorrect_cape_reports.py:64-72, then the VirusTotal checks
BehaviorChecks(r) ==
    IF r.behavior \in {"absent", "noprocs"} THEN RaisesKeyError
    ELSE IF r.behavior = "empty" THEN Appends({"no_processes"})
    ELSE IF r.behavior = "nocalls" THEN RaisesKeyError
    ELSE IF r.behavior = "nohooks" THEN Appends({"no_hooked_functions"})
    ELSE VTCheck(r)

ProcessReportBug(r) ==
    IF r.target = "absent"
    THEN [cats |-> {"fatal"} \cup BehaviorChecks(r).cats, raises |-> FALSE]
    ELSE BehaviorChecks(r)

\* ReportStats.process_report
ProcessReport(r) ==
    IF r.target = "absent" THEN Appends({"fatal"}) ELSE BehaviorChecks(r)

AppendIf(list, cond, p) == IF cond THEN Append(list, p) ELSE list

\* one iteration of the loop of main: json.load, then process_report
ClassifyStep ==
    /\ pc = "cls_loop"
    /\ cls_i <= Len(reports)
    /\ LET json_file == reports[cls_i]
           r == files[json_file]
           res == ProcessReport(r)
       IN  IF ~r.parse
           THEN /\ pc' = "crashed" /\ err' = "JSONDecodeError"
                /\ UNCHANGED <<cls_i, clsLists>>
           ELSE /\ report_fatal' = AppendIf(report_fatal, "fatal" \in res.cats, json_file)
                /\ reports_no_processes' =
                       AppendIf(reports_no_processes, "no_processes" \in res.cats, json_file)
                /\ reports_no_hooked_functions' =
                       AppendIf(reports_no_hooked_functions,
                                "no_hooked_functions" \in res.cats, json_file)
                /\ reports_no_vt' = AppendIf(reports_no_vt, "no_vt" \in res.cats, json_file)
                /\ reports_vt_error' =
                       AppendIf(reports_vt_error, "vt_error" \in res.cats, json_file)
                /\ IF res.raises
                   THEN /\ pc' = "crashed" /\ err' = "KeyError"
                        /\ UNCHANGED cls_i
                   ELSE /\ cls_i' = cls_i + 1
                        /\ UNCHANGED <<pc, err>>
    /\ UNCHANGED <<files, loc, reports, strat, dupVars, reports_with_errors,
                   reports_with_vt_errors, sanVars, passed, statVars, fnVars>>

\* Path(report).rename(dest + name) for each report of list, in order; rename
\* raises FileNotFoundError when the file is no longer at its path
RECURSIVE MoveList(_, _, _)
MoveList(l, list, dest) ==
    IF list = <<>> THEN [loc |-> l, ok |-> TRUE]
    ELSE IF l[Head(list)] # "corpus" THEN [loc |-> l, ok |-> FALSE]
    ELSE MoveList([l EXCEPT ![Head(list)] = dest], Tail(list), dest)

\* the loop of main is over: write_results, then main returns its two lists
ClassifyWrite ==
    /\ pc = "cls_loop"
    /\ cls_i > Len(reports)
    /\ LET broken == report_fatal \o reports_no_processes \o reports_no_hooked_functions
           vt == reports_no_vt \o reports_vt_error
           m1 == MoveList(loc, broken, "errors")
           m2 == MoveList(m1.loc, vt, "vt_errors")
       IN  IF m1.ok /\ m2.ok
           THEN /\ loc' = m2.loc
                /\ reports_with_errors' = broken
                /\ reports_with_vt_errors' = vt
                /\ pc' = "cls_ret"
                /\ UNCHANGED err
           ELSE /\ loc' = IF m1.ok THEN m2.loc ELSE m1.loc
                /\ pc' = "crashed" /\ err' = "FileNotFoundError"
                /\ UNCHANGED <<reports_with_errors, reports_with_vt_errors>>
    /\ UNCHANGED <<files, reports, strat, dupVars, cls_i, clsLists, sanVars, passed, statVars, fnVars>>

\* ---------------------------------------------------- Duplicate Resolver
HasSha512Bug(r) == r.target \in {"novt", "vterr", "ok"}

\* cape_report['target']['file']['sha512'] can be read
HasSha512(r) == r.target \in {"novt", "vterr", "ok"} /\ r.sha512 # 0

OpenGroupBug(json_file, size, first, first_size) ==
    << [path |-> json_file, size |-> size] >>

\* get_duplicate_reports.py:61-63: the group opened on the second sighting
OpenGroup(json_file, size, first, first_size) ==
    << [path |-> json_file, size |-> size],
       [path |-> first, size |-> first_size] >>

\* one iteration of the loop of search_duplicates
SearchStep ==
    /\ pc = "dup_search"
    /\ dup_i <= Len(reports)
    /\ LET json_file == reports[dup_i]
           r == files[json_file]
           report_id == r.sha512
       IN  IF ~r.parse
           THEN /\ pc' = "crashed" /\ err' = "JSONDecodeError"
                /\ UNCHANGED dupVars
           ELSE IF ~HasSha512(r)
           THEN /\ pc' = "crashed" /\ err' = "KeyError"
                /\ UNCHANGED dupVars
           ELSE /\ dup_i' = dup_i + 1
                /\ UNCHANGED <<pc, err, mv_g, mv_i, mv_size, mv_index, files_to_discard>>
                /\ IF seen_values[report_id] # 0
                   THEN /\ UNCHANGED seen_values
                        /\ IF duplicate_reports[report_id] = <<>>
                           THEN /\ duplicate_reports' =
                                     [duplicate_reports EXCEPT ![report_id] =
                                         OpenGroup(json_file, r.size,
                                                   seen_values[report_id],
                                                   files[seen_values[report_id]].size)]
                                /\ group_order' = Append(group_order, report_id)
                           ELSE /\ duplicate_reports' =
                                     [duplicate_reports EXCEPT ![report_id] =
                                         Append(@, [path |-> json_file, size |-> r.size])]
                                /\ UNCHANGED group_order
                   ELSE /\ seen_values' = [seen_values EXCEPT ![report_id] = json_file]
                        /\ UNCHANGED <<duplicate_reports, group_order>>
    /\ UNCHANGED <<files, loc, reports, strat, clsVars, sanVars, passed, statVars, fnVars>>

\* search_duplicates returns; main writes duplicate_reports.json and calls
\* move_duplicate_reports
SearchReturn ==
    /\ pc = "dup_search"
    /\ dup_i > Len(reports)
    /\ pc' = "dup_move"
    /\ UNCHANGED <<files, loc, reports, err, strat, dupVars, clsVars, sanVars, passed, statVars, fnVars>>

IsBiggerBug(size_i, size) == size_i < size

\* get_duplicate_reports.py:101  the i-th report replaces the current biggest
IsBigger(size_i, size) == size_i > size

\* get_duplicate_reports.py:90  range(1, len(...)): the first index discarded
\* by 'first' (index 1 of the code is position 2 here)
FirstLoopStart == 2

DiscardUnlisted(p) ==
    IF loc[p] = "corpus"
    THEN /\ loc' = [loc EXCEPT ![p] = "duplicates"]
         /\ UNCHANGED <<files_to_discard, pc, err>>
    ELSE /\ pc' = "crashed" /\ err' = "FileNotFoundError"
         /\ UNCHANGED <<loc, files_to_discard>>

\* Path(p).rename(DUPLICATES_DIR + "duplicate_reports/" + name), and
\* files_to_discard.append(p); rename raises if the file is not there
Discard(p) ==
    IF loc[p] = "corpus"
    THEN /\ loc' = [loc EXCEPT ![p] = "duplicates"]
         /\ files_to_discard' = Append(files_to_discard, p)
         /\ UNCHANGED <<pc, err>>
    ELSE /\ pc' = "crashed" /\ err' = "FileNotFoundError"
         /\ UNCHANGED <<loc, files_to_discard>>

\* the outer loop of move_duplicate_reports takes the next group, or returns
MoveNextGroup ==
    /\ pc = "dup_move"
    /\ IF mv_g = 0 THEN TRUE ELSE mv_i > Len(duplicate_reports[group_order[mv_g]])
    /\ IF mv_g + 1 > Len(group_order)
       THEN /\ pc' = "dup_ret"
            /\ UNCHANGED <<mv_g, mv_i, mv_size, mv_index>>
       ELSE /\ mv_g' = mv_g + 1
            /\ mv_i' = FirstLoopStart
            /\ mv_index' = 1
            /\ mv_size' = duplicate_reports[group_order[mv_g + 1]][1].size
            /\ UNCHANGED pc
    /\ UNCHANGED <<files, loc, reports, err, strat, dup_i, seen_values,
                   duplicate_reports, group_order, files_to_discard, clsVars, sanVars, passed, statVars, fnVars>>

\* strategy 'first': one iteration of the inner loop
MoveFirst ==
    /\ pc = "dup_move"
    /\ strat = "first"
    /\ mv_g > 0
    /\ mv_i <= Len(duplicate_reports[group_order[mv_g]])
    /\ Discard(duplicate_reports[group_order[mv_g]][mv_i].path)
    /\ mv_i' = mv_i + 1
    /\ UNCHANGED <<files, reports, strat, dup_i, seen_values, duplicate_reports,
                   group_order, mv_g, mv_size, mv_index, clsVars, sanVars, passed, statVars, fnVars>>

\* strategy 'biggest': one iteration of the inner loop
MoveBiggest ==
    /\ pc = "dup_move"
    /\ strat = "biggest"
    /\ mv_g > 0
    /\ mv_i <= Len(duplicate_reports[group_order[mv_g]])
    /\ LET group == duplicate_reports[group_order[mv_g]]
       IN  IF IsBigger(group[mv_i].size, mv_size)
           THEN /\ mv_size' = group[mv_i].size
                /\ Discard(group[mv_index].path)
                /\ mv_index' = mv_i
           ELSE /\ Discard(group[mv_i].path)
                /\ UNCHANGED <<mv_size, mv_index>>
    /\ mv_i' = mv_i + 1
    /\ UNCHANGED <<files, reports, strat, dup_i, seen_values, duplicate_reports,
                   group_order, mv_g, clsVars, sanVars, passed, statVars, fnVars>>

\* ---------------------------------------------------------- Sanitizer
\* sanitize_and_anonymize_reports.py:106-120: json.load, behavior.processes
\* or behavior.processtree raises
StructuralRaises(r) ==
    \/ ~r.parse
    \/ r.behavior \in {"absent", "noprocs"}
    \/ r.tree = "absent"

\* sanitize_and_anonymize_reports.py:109-127: the document written back
Structural(r) ==
    [r EXCEPT !.noise = FALSE,
              !.environ = IF @ = "raw" THEN "redacted" ELSE @,
              !.tree = IF @ = "raw" THEN "redacted" ELSE @,
              !.detections = IF @ = "absent" THEN "(n/a)" ELSE @]

RedactedAgain(v) == IF v = "redacted" THEN "redacted twice" ELSE "redacted"

\* sanitize_and_anonymize_reports.py:67,117  the value "[REDACTED]" assigned
\* to an 'environ' key, whatever its value v was
Redacted(v) == "redacted"

RECURSIVE delete_environ_dicts_only(_)
delete_environ_dicts_only(d) ==
    IF d.kind = "dict"
    THEN [d EXCEPT !.children = [k \in 1..Len(d.children) |->
                                    delete_environ_dicts_only(d.children[k])],
                   !.environ = IF @ = "none" THEN "none" ELSE Redacted(@)]
    ELSE d

\* sanitize_and_anonymize_reports.py:52-72
RECURSIVE delete_environ_recursive(_)
delete_environ_recursive(d) ==
    IF d.kind = "dict"
    THEN [d EXCEPT !.children = [k \in 1..Len(d.children) |->
                                    delete_environ_recursive(d.children[k])],
                   !.environ = IF @ = "none" THEN "none" ELSE Redacted(@)]
    ELSE IF d.kind = "list"
    THEN [d EXCEPT !.children = [k \in 1..Len(d.children) |->
                                    delete_environ_recursive(d.children[k])]]
    ELSE d

\* sanitize_and_anonymize_reports.py:115-120: the 'environ' of the records of
\* behavior.processes and of behavior.processtree
RedactBehavior(b) ==
    [processes |-> [k \in 1..Len(b.processes) |->
                       IF b.processes[k] = "none" THEN "none"
                       ELSE Redacted(b.processes[k])],
     processtree |-> delete_environ_recursive(b.processtree)]

\* sanitize_and_anonymize_reports.py:114-120 applied to a 'behavior' section
SanitizeEnviron ==
    /\ pc = "redact"
    /\ applied < MaxApplications
    /\ data' = RedactBehavior(data)
    /\ applied' = applied + 1
    /\ UNCHANGED <<files, loc, reports, pc, err, strat, dupVars, clsVars, sanVars,
                   passed, statVars, text, terms, sed_run, original>>

\* sanitize_and_anonymize_reports.py:89  the text "[REDACTED]"
Marker == <<"[", "R", "E", "D", "A", "C", "T", "E", "D", "]">>

\* sed: the regular expression term matches s at position i ("." matches any
\* character, every other character of the runs matches itself)
Matches(term, s, i) ==
    /\ i + Len(term) - 1 <= Len(s)
    /\ \A k \in 1..Len(term) : term[k] = "." \/ term[k] = s[i + k - 1]

\* sed 's/term/[REDACTED]/g' on a one-line text, scanning from position i
RECURSIVE Substitute(_, _, _)
Substitute(term, s, i) ==
    IF i > Len(s) THEN <<>>
    ELSE IF Matches(term, s, i) THEN Marker \o Substitute(term, s, i + Len(term))
    ELSE <<s[i]>> \o Substitute(term, s, i + 1)

\* sanitize_and_anonymize_reports.py:88-89  a term that holds the delimiter
\* "/" ends the s command early: sed rejects the script
ScriptRejected(ts) == \E k \in 1..Len(ts) : \E j \in 1..Len(ts[k]) : ts[k][j] = "/"

\* the s commands of the script, run in the order of the terms file
RECURSIVE RunScript(_, _)
RunScript(ts, s) ==
    IF ts = <<>> THEN s ELSE RunScript(Tail(ts), Substitute(Head(ts), s, 1))

\* sanitize_and_anonymize_reports.py:83-94  subprocess.run does not check the
\* exit status: when sed rejects the script the file is left as it was
AnonymizeReport ==
    /\ pc = "anonymize"
    /\ ~sed_run
    /\ text' = IF ScriptRejected(terms) THEN text ELSE RunScript(terms, text)
    /\ sed_run' = TRUE
    /\ UNCHANGED <<files, loc, reports, pc, err, strat, dupVars, clsVars, sanVars,
                   passed, statVars, data, applied, terms, original>>

\* sanitize_and_anonymize_reports.py:155-158: the pool is created and one
\* unit per report is submitted
SanSubmit ==
    /\ pc = "san_submit"
    /\ task' = [p \in DOMAIN files |-> IF p \in Range(reports) THEN "queued" ELSE "none"]
    /\ workers' \in 1..MaxWorkers
    /\ terms_ok' \in BOOLEAN
    /\ pc' = "san_pool"
    /\ UNCHANGED <<files, loc, reports, err, strat, dupVars, clsVars, passed, statVars, fnVars>>

Running == {p \in DOMAIN task : task[p] \in {"running", "written"}}

\* the queued unit submitted first
NextQueued ==
    LET k == CHOOSE i \in 1..Len(reports) :
                 /\ task[reports[i]] = "queued"
                 /\ \A j \in 1..(i - 1) : task[reports[j]] # "queued"
    IN  reports[k]

\* an idle worker takes the next unit of the queue
SanStart ==
    /\ pc = "san_pool"
    /\ Cardinality(Running) < workers
    /\ \E p \in Range(reports) : task[p] = "queued"
    /\ task' = [task EXCEPT ![NextQueued] = "running"]
    /\ UNCHANGED <<files, loc, reports, pc, err, strat, dupVars, clsVars,
                   workers, terms_ok, passed, statVars, fnVars>>

OnRaiseAbort(t, p) ==
    [q \in DOMAIN t |-> IF q = p \/ t[q] = "queued" THEN "failed" ELSE t[q]]

\* an exception raised by process_file is stored in the unit's future, which
\* main never asks for its result: the other units are not affected
OnRaise(t, p) == [t EXCEPT ![p] = "failed"]

\* process_file up to json.dump (lines 106-127)
SanStructural(p) ==
    /\ pc = "san_pool"
    /\ task[p] = "running"
    /\ IF StructuralRaises(files[p])
       THEN /\ task' = OnRaise(task, p)
            /\ UNCHANGED files
       ELSE /\ files' = [files EXCEPT ![p] = Structural(@)]
            /\ task' = [task EXCEPT ![p] = "written"]
    /\ UNCHANGED <<loc, reports, pc, err, strat, dupVars, clsVars, workers,
                   terms_ok, passed, statVars, fnVars>>

SanAnonymizeEveryFile(p) ==
    /\ pc = "san_pool"
    /\ task[p] = "written"
    /\ IF terms_ok
       THEN /\ files' = [q \in DOMAIN files |->
                            IF task[q] \in {"written", "done"}
                            THEN [files[q] EXCEPT !.anonymized = TRUE]
                            ELSE files[q]]
            /\ task' = [task EXCEPT ![p] = "done"]
       ELSE /\ task' = OnRaise(task, p)
            /\ UNCHANGED files
    /\ UNCHANGED <<loc, reports, pc, err, strat, dupVars, clsVars, workers,
                   terms_ok, passed, statVars, fnVars>>

\* anonymize_report (lines 83-94): open(terms_file) raises, or sed runs
SanAnonymize(p) ==
    /\ pc = "san_pool"
    /\ task[p] = "written"
    /\ IF terms_ok
       THEN /\ files' = [files EXCEPT ![p].anonymized = TRUE]
            /\ task' = [task EXCEPT ![p] = "done"]
       ELSE /\ task' = OnRaise(task, p)
            /\ UNCHANGED files
    /\ UNCHANGED <<loc, reports, pc, err, strat, dupVars, clsVars, workers,
                   terms_ok, passed, statVars, fnVars>>

AnyFutureCompleted ==
    reports # <<>> => \E p \in Range(reports) : task[p] \in {"done", "failed"}

\* sanitize_and_anonymize_reports.py:155-161: the loop over as_completed ends
\* and the executor is shut down once every future has completed
AllFuturesCompleted == \A p \in Range(reports) : task[p] \in {"done", "failed"}

\* every future has completed: as_completed is exhausted, the executor is
\* shut down and main returns
SanJoin ==
    /\ pc = "san_pool"
    /\ AllFuturesCompleted
    /\ pc' = "san_ret"
    /\ UNCHANGED <<files, loc, reports, err, strat, dupVars, clsVars, sanVars, passed, statVars, fnVars>>

\* ------------------------------------------------------- Stats Aggregator
\* the text "(n/a)"
NA == <<"(", "n", "/", "a", ")">>

\* str.upper and str.lower on one character
Upper(c) ==
    CASE c = "e" -> "E" [] c = "m" -> "M" [] c = "x" -> "X"
      [] c = "n" -> "N" [] c = "a" -> "A" [] OTHER -> c

Lower(c) ==
    CASE c = "E" -> "e" [] c = "M" -> "m" [] c = "X" -> "x"
      [] c = "N" -> "n" [] c = "A" -> "a" [] OTHER -> c

CapitalizeNot(s) == s

CapitalizeFirstOnly(s) == [k \in 1..Len(s) |-> IF k = 1 THEN Upper(s[k]) ELSE s[k]]

\* str.capitalize(): the first character upper-cased, the others lower-cased
Capitalize(s) == [k \in 1..Len(s) |-> IF k = 1 THEN Upper(s[k]) ELSE Lower(s[k])]

\* get_cape_reports_stats.py:78-83  a minimum tracker [value, json_file]
MinUpdate(tracker, v, f) ==
    IF tracker = <<>> THEN <<v, f>>
    ELSE IF v < tracker[1] THEN <<v, f>> ELSE tracker

\* get_cape_reports_stats.py:85-87  a maximum tracker [value, json_file]
MaxUpdate(tracker, v, f) == IF tracker[1] < v THEN <<v, f>> ELSE tracker

SpawnedNoTotal(acc, r, f) ==
    LET n == Len(r.calls)
    IN  [acc EXCEPT !.min_spawned_processes = MinUpdate(@, n, f),
                    !.max_spawned_processes = MaxUpdate(@, n, f)]

\* get_cape_reports_stats.py:77-89
Spawned(acc, r, f) ==
    LET n == Len(r.calls)
    IN  [acc EXCEPT !.min_spawned_processes = MinUpdate(@, n, f),
                    !.max_spawned_processes = MaxUpdate(@, n, f),
                    !.total_spawned_processes = @ + n]

\* get_cape_reports_stats.py:92-104  the loop over behavior.processes
RECURSIVE HookedLoop(_, _, _)
HookedLoop(acc, calls, f) ==
    IF calls = <<>> THEN acc
    ELSE HookedLoop([acc EXCEPT !.total_hooked_functions = @ + Head(calls),
                                !.min_hooked_functions = MinUpdate(@, Head(calls), f),
                                !.max_hooked_functions = MaxUpdate(@, Head(calls), f)],
                    Tail(calls), f)

VTReadableAlways(r) == TRUE

\* get_cape_reports_stats.py:108  the subscripts do not raise
VTReadable(r) == r.target = "ok" /\ r.positives >= 0

VTStageBelow(acc, r, f) ==
    [acc EXCEPT !.min_vt_positives = MinUpdate(@, r.positives, f),
                !.max_vt_positives = MaxUpdate(@, r.positives, f),
                !.no_vt_positives = IF r.positives < acc.vt_positives_threshold
                                    THEN Append(@, f) ELSE @]

\* get_cape_reports_stats.py:108-122
VTStage(acc, r, f) ==
    [acc EXCEPT !.min_vt_positives = MinUpdate(@, r.positives, f),
                !.max_vt_positives = MaxUpdate(@, r.positives, f),
                !.no_vt_positives = IF r.positives <= acc.vt_positives_threshold
                                    THEN Append(@, f) ELSE @]

CapeStageAnyPositives(acc, r, f) ==
    IF r.detections = "(n/a)"
    THEN [acc EXCEPT !.reports_no_cape_consensus = Append(@, f),
                     !.cape_detection_labels = Append(@, NA)]
    ELSE IF r.positives # 0
         THEN [acc EXCEPT !.cape_detection_labels =
                   @ \o [k \in 1..Len(r.families) |-> Capitalize(r.families[k])]]
         ELSE acc

\* get_cape_reports_stats.py:131-137
CapeStage(acc, r, f) ==
    IF r.detections = "(n/a)" /\ r.positives # 0
    THEN [acc EXCEPT !.reports_no_cape_consensus = Append(@, f),
                     !.cape_detection_labels = Append(@, NA)]
    ELSE IF r.positives # 0
         THEN [acc EXCEPT !.cape_detection_labels =
                   @ \o [k \in 1..Len(r.families) |-> Capitalize(r.families[k])]]
         ELSE acc

\* get_cape_reports_stats.py:140-150
AVClassStage(acc, r, f) ==
    IF r.avclass = <<>> THEN acc
    ELSE IF Capitalize(r.avclass[1]) # NA
         THEN [acc EXCEPT !.avclass_detection_labels = Append(@, r.avclass[1])]
         ELSE [acc EXCEPT !.avclass_detection_labels = Append(@, NA),
                          !.reports_no_avclass_consensus = Append(@, f)]

\* get_cape_reports_stats.py:67-150, called at 276-283: what is left in the
\* ReportStats object once the report has been processed, or once the
\* exception it raised has been caught by main
StatsProcessReport(acc, r, f) ==
    IF ~r.parse \/ r.behavior \in {"absent", "noprocs"} THEN acc
    ELSE IF r.behavior = "nocalls" THEN Spawned(acc, r, f)
    ELSE LET hooked == HookedLoop(Spawned(acc, r, f), r.calls, f)
         IN  IF ~VTReadable(r) THEN hooked
             ELSE IF r.detections = "absent" THEN VTStage(hooked, r, f)
             ELSE AVClassStage(CapeStage(VTStage(hooked, r, f), r, f), r, f)

\* Counter(labels).most_common(): the distinct labels with their counts, by
\* decreasing count, labels of equal count in the order they were first met
MostCommon(labels) ==
    LET Count(x) == Cardinality({k \in 1..Len(labels) : labels[k] = x})
        firsts == {k \in 1..Len(labels) : \A j \in 1..(k - 1) : labels[j] # labels[k]}
        Before(j, i) ==
            \/ Count(labels[j]) > Count(labels[i])
            \/ Count(labels[j]) = Count(labels[i]) /\ j < i
    IN  [pos \in 1..Cardinality(firsts) |->
            LET i == CHOOSE i \in firsts :
                         Cardinality({j \in firsts : Before(j, i)}) = pos - 1
            IN  <<labels[i], Count(labels[i])>>]

\* get_cape_reports_stats.py:161-200  the exception raised while the stats
\* dictionary is built, or "none"
WriteRaises(acc) ==
    IF acc.total_reports_in_folder = 0 THEN "ZeroDivisionError"
    ELSE IF acc.min_spawned_processes = <<>> THEN "IndexError"
    ELSE IF acc.total_spawned_processes = 0 THEN "ZeroDivisionError"
    ELSE IF acc.min_hooked_functions = <<>> THEN "IndexError"
    ELSE IF acc.min_vt_positives = <<>> THEN "IndexError"
    ELSE "none"

\* get_cape_reports_stats.py:161-200  the stats dictionary; a quotient is
\* kept as the pair <<dividend, divisor>>
Summary(acc) ==
    [total_reports |-> acc.total_reports_in_folder,
     average_spawned_processes |->
         <<acc.total_spawned_processes, acc.total_reports_in_folder>>,
     min_spawned_processes |-> acc.min_spawned_processes,
     max_spawned_processes |-> acc.max_spawned_processes,
     average_hooked_functions |->
         <<acc.total_hooked_functions, acc.total_spawned_processes>>,
     min_hooked_functions |-> acc.min_hooked_functions,
     max_hooked_functions |-> acc.max_hooked_functions,
     average_vt_detections |->
         <<acc.total_vt_positives, acc.total_reports_in_folder>>,
     min_vt_detections |-> acc.min_vt_positives,
     max_vt_detections |-> acc.max_vt_positives,
     cape_detections |-> MostCommon(acc.cape_detection_labels),
     avclass_detections |-> MostCommon(acc.avclass_detection_labels)]

\* get_cape_reports_stats.py:268-269
StatsEnter(json_files, threshold) ==
    [NewStats(threshold) EXCEPT !.total_reports_in_folder = Len(json_files)]

\* get_cape_reports_stats.py:275-283  one iteration of the loop of main
StatsStep ==
    /\ pc = "stats"
    /\ st_i <= Len(reports)
    /\ stats' = StatsProcessReport(stats, files[reports[st_i]], reports[st_i])
    /\ st_i' = st_i + 1
    /\ UNCHANGED <<files, loc, reports, pc, err, strat, dupVars, clsVars, sanVars,
                   passed, stats_out, fnVars>>

\* get_cape_reports_stats.py:285-291  write_results, then main returns
StatsWrite ==
    /\ pc = "stats"
    /\ st_i > Len(reports)
    /\ IF WriteRaises(stats) # "none"
       THEN /\ pc' = "crashed"
            /\ err' = WriteRaises(stats)
            /\ UNCHANGED stats_out
       ELSE /\ pc' = "stats_ret"
            /\ stats_out' = [written |-> TRUE, returned |-> TRUE,
                             statistics |-> Summary(stats),
                             undetected |-> stats.no_vt_positives,
                             no_cape_consensus |-> stats.reports_no_cape_consensus,
                             no_avclass_consensus |-> stats.reports_no_avclass_consensus]
            /\ UNCHANGED err
    /\ UNCHANGED <<files, loc, reports, strat, dupVars, clsVars, sanVars, passed,
                   stats, st_i, fnVars>>

\* ------------------------------------------------------- Orchestrator
\* malvada.py:93-99: the reports of phase 1 are removed, phase 2 is called
OrchPhase2 ==
    /\ pc = "cls_ret"
    /\ reports' = Remove(reports, reports_with_errors \o reports_with_vt_errors)
    /\ passed' = Append(passed, reports')
    /\ pc' = "dup_search"
    /\ UNCHANGED <<files, loc, err, strat, dupVars, clsVars, sanVars, statVars, fnVars>>

\* malvada.py:102-106: the duplicates are removed, phase 3 is called
OrchPhase3 ==
    /\ pc = "dup_ret"
    /\ reports' = Remove(reports, files_to_discard)
    /\ passed' = Append(passed, reports')
    /\ pc' = "san_submit"
    /\ UNCHANGED <<files, loc, err, strat, dupVars, clsVars, sanVars, statVars, fnVars>>

\* malvada.py:109: phase 4 is called with the same list
OrchPhase4 ==
    /\ pc = "san_ret"
    /\ passed' = Append(passed, reports)
    /\ pc' = "avclass_ret"
    /\ UNCHANGED <<files, loc, reports, err, strat, dupVars, clsVars, sanVars, statVars, fnVars>>

\* malvada.py:112-113: phase 5 is called with the same list
OrchPhase5 ==
    /\ pc = "avclass_ret"
    /\ passed' = Append(passed, reports)
    /\ stats' = StatsEnter(reports, VtThreshold)
    /\ st_i' = 1
    /\ pc' = "stats"
    /\ UNCHANGED <<files, loc, reports, err, strat, dupVars, clsVars, sanVars,
                   stats_out, fnVars>>

\* malvada.py:115-131: the three lists are received, the summary is printed
OrchSummary ==
    /\ pc = "stats_ret"
    /\ pc' = "finished"
    /\ UNCHANGED <<files, loc, reports, err, strat, dupVars, clsVars, sanVars,
                   passed, statVars, fnVars>>

\* -------------------------------------------------- specifications
\* The Error Classifier run on its own (get_incorrect_cape_reports.py:188-217):
\* files that do not parse, and parseable reports with every combination of
\* the fields process_report reads.
ClsReports ==
    {Raw(t, b, 1, 1, "raw") : t \in Targets, b \in Behaviors} \cup {Unparseable}

InitClassify ==
    /\ files \in [1..NumClsReports -> ClsReports]
    /\ loc = [p \in 1..NumClsReports |-> "corpus"]
    /\ reports = [k \in 1..NumClsReports |-> k]
    /\ strat = "biggest"
    /\ pc = "cls_loop"
    /\ err = "none"
    /\ DupVarsInit
    /\ ClsVarsInit
    /\ SanVarsInit
    /\ passed = <<reports>>
    /\ StatVarsInit
    /\ FnVarsInit

NextClassify == ClassifyStep \/ ClassifyWrite

\* The Duplicate Resolver run on its own (get_duplicate_reports.py:171-197):
\* any parseable reports with target.file, with or without sha512.
DupReports ==
    {Raw("ok", "ok", h, sz, "raw") : h \in 0..NumHashes, sz \in Sizes}

InitDup ==
    /\ files \in [1..NumDupReports -> DupReports]
    /\ loc = [p \in 1..NumDupReports |-> "corpus"]
    /\ reports = [k \in 1..NumDupReports |-> k]
    /\ strat \in {"first", "biggest"}
    /\ pc = "dup_search"
    /\ err = "none"
    /\ DupVarsInit
    /\ ClsVarsInit
    /\ SanVarsInit
    /\ passed = <<reports>>
    /\ StatVarsInit
    /\ FnVarsInit

NextDup == SearchStep \/ SearchReturn \/ MoveNextGroup \/ MoveFirst \/ MoveBiggest

\* The Sanitizer run on its own (sanitize_and_anonymize_reports.py:168-190).
SanReports ==
    {Raw("ok", b, 1, 1, tr) : b \in {"absent", "ok"}, tr \in {"absent", "raw"}}
    \cup {Structural(Raw("ok", "ok", 1, 1, "raw")), Unparseable}

InitSan ==
    /\ files \in [1..NumSanReports -> SanReports]
    /\ loc = [p \in 1..NumSanReports |-> "corpus"]
    /\ reports = [k \in 1..NumSanReports |-> k]
    /\ strat = "biggest"
    /\ pc = "san_submit"
    /\ err = "none"
    /\ DupVarsInit
    /\ ClsVarsInit
    /\ SanVarsInit
    /\ passed = <<reports>>
    /\ StatVarsInit
    /\ FnVarsInit

NextSan ==
    \/ SanSubmit
    \/ SanStart
    \/ \E p \in DOMAIN files : SanStructural(p)
    \/ \E p \in DOMAIN files : SanAnonymize(p)
    \/ SanJoin

\* The pipeline (malvada.py): one report for each way out of the Error
\* Classifier, and reports that pass it with or without sha512, of two hashes
\* and two sizes, with or without behavior.processtree.
PipeReports ==
    {Unparseable, Raw("absent", "ok", 1, 1, "raw"), Raw("ok", "empty", 1, 1, "raw"),
     Raw("novt", "ok", 1, 1, "raw"), Raw("ok", "absent", 1, 1, "raw")}
    \cup {Raw("ok", "ok", h, sz, tr) : h \in 0..2, sz \in 1..2, tr \in {"absent", "raw"}}

Init ==
    /\ files \in [1..NumPipeReports -> PipeReports]
    /\ loc = [p \in 1..NumPipeReports |-> "corpus"]
    /\ reports = [k \in 1..NumPipeReports |-> k]
    /\ strat = "biggest"
    /\ pc = "cls_loop"
    /\ err = "none"
    /\ DupVarsInit
    /\ ClsVarsInit
    /\ SanVarsInit
    /\ passed = <<reports>>
    /\ StatVarsInit
    /\ FnVarsInit

Next ==
    \/ ClassifyStep
    \/ ClassifyWrite
    \/ OrchPhase2
    \/ SearchStep
    \/ SearchReturn
    \/ MoveNextGroup
    \/ MoveBiggest
    \/ OrchPhase3
    \/ SanSubmit
    \/ SanStart
    \/ \E p \in DOMAIN files : SanStructural(p)
    \/ \E p \in DOMAIN files : SanAnonymize(p)
    \/ SanJoin
    \/ OrchPhase4
    \/ OrchPhase5
    \/ StatsStep
    \/ StatsWrite
    \/ OrchSummary

\* A run of a single function: the corpus is one report that is not touched.
IdleCorpus ==
    /\ files = [p \in 1..1 |-> Raw("ok", "ok", 1, 1, "raw")]
    /\ loc = [p \in 1..1 |-> "corpus"]
    /\ reports = <<1>>
    /\ strat = "biggest"
    /\ err = "none"
    /\ DupVarsInit
    /\ ClsVarsInit
    /\ SanVarsInit
    /\ passed = <<reports>>
    /\ StatVarsInit

\* JSON values of nesting depth at most n: a scalar, a dict with or without
\* 'environ', and dicts and lists holding one value of depth n - 1, alone or
\* after a dict that has 'environ'
RECURSIVE Trees(_)
Trees(n) ==
    LET leaves == {Scalar, Node("dict", "none", <<>>), Node("dict", "raw", <<>>)}
    IN  IF n = 0 THEN leaves
        ELSE LET below == Trees(n - 1)
                 items == {<<c>> : c \in below}
                          \cup {<<Node("dict", "raw", <<>>), c>> : c \in below}
             IN  leaves
                 \cup {Node("dict", e, cs) : e \in {"none", "raw"}, cs \in items}
                 \cup {Node("list", "none", cs) : cs \in items}

\* the 'environ' of up to n records of behavior.processes
RECURSIVE Entries(_)
Entries(n) ==
    IF n = 0 THEN {<<>>}
    ELSE LET shorter == Entries(n - 1)
         IN  shorter \cup {Append(es, e) : es \in shorter, e \in {"none", "raw", "redacted"}}

\* The environ redaction of process_file applied to a 'behavior' section,
\* once and again.
InitRedact ==
    /\ IdleCorpus
    /\ pc = "redact"
    /\ data \in [processes : Entries(MaxEntries), processtree : Trees(MaxDepth)]
    /\ applied = 0
    /\ text = <<>>
    /\ terms = <<>>
    /\ sed_run = FALSE
    /\ original = files

NextRedact == SanitizeEnviron

SpecRedact == InitRedact /\ [][NextRedact]_vars

\* the characters of the anonymization runs: a plain character, a character
\* of the marker, and two characters that sed does not read literally
Alphabet == {"a", "E", ".", "/"}

\* the texts of at most n characters
RECURSIVE Texts(_)
Texts(n) ==
    IF n = 0 THEN {<<>>}
    ELSE LET shorter == Texts(n - 1)
         IN  shorter \cup {Append(t, c) : t \in shorter, c \in Alphabet}

\* the terms files of at most n lines, none of them empty
RECURSIVE TermLists(_)
TermLists(n) ==
    IF n = 0 THEN {<<>>}
    ELSE LET shorter == TermLists(n - 1)
         IN  shorter \cup {Append(ts, t) : ts \in shorter, t \in Texts(MaxTermLen) \ {<<>>}}

\* anonymize_report run on a report file and a terms file.
InitAnon ==
    /\ IdleCorpus
    /\ pc = "anonymize"
    /\ data = [processes |-> <<>>, processtree |-> Scalar]
    /\ applied = 0
    /\ text \in Texts(MaxTextLen)
    /\ terms \in TermLists(MaxTerms)
    /\ sed_run = FALSE
    /\ original = files

NextAnon == AnonymizeReport

SpecAnon == InitAnon /\ [][NextAnon]_vars

\* a sanitized report with the fields the Stats Aggregator reads
StatReport(calls, positives, detections, families, avclass) ==
    [Structural(Raw("ok", IF calls = <<>> THEN "empty"
                          ELSE IF calls[1] = 0 THEN "nohooks" ELSE "ok",
                    1, 1, "raw"))
        EXCEPT !.calls = calls, !.positives = positives, !.detections = detections,
               !.families = families, !.avclass = avclass]

\* family names that differ in the case of their letters, or in a letter
Labels == {<<c1, c2>> : c1 \in {"e", "E"}, c2 \in {"m", "M", "x"}}

\* The Stats Aggregator run on its own (get_cape_reports_stats.py:294-328):
\* reports with 0..MaxProcs processes, reports with or without VT positives,
\* reports whose processes differ in their number of calls, a report with
\* labels and no VT positives, and reports the loop of main cannot process.
StatsReports ==
    {StatReport([k \in 1..n |-> 1], 1, "(n/a)", <<>>, <<>>) : n \in 0..MaxProcs}
    \cup {StatReport(<<1>>, v, "(n/a)", <<>>, <<>>) : v \in -1..MaxPositives}
    \cup {StatReport(cs, 1, "(n/a)", <<>>, <<>>) : cs \in {<<0>>, <<2>>, <<2, 0>>}}
    \cup {StatReport(<<1>>, -1, "families", << <<"e", "m">> >>, << <<"e", "m">> >>)}
    \cup {Unparseable, Raw("ok", "absent", 1, 1, "raw"), Raw("ok", "ok", 1, 1, "raw")}

\* The Stats Aggregator run on reports that differ in their labels: a CAPE
\* family, two families, the sentinel, with zero or nonzero VT positives; an
\* AVClass label; labels without VT positives; no 'detections'.
LabelReports ==
    {StatReport(<<1>>, 1, "families", <<l>>, <<>>) : l \in Labels}
    \cup {StatReport(<<1>>, 1, "families", << <<"e", "m">>, <<"E", "x">> >>, <<>>),
          StatReport(<<1>>, 0, "families", << <<"e", "m">> >>, <<>>)}
    \cup {StatReport(<<1>>, v, "(n/a)", <<>>, <<>>) : v \in {0, 1}}
    \cup {StatReport(<<1>>, 1, "(n/a)", <<>>, <<l>>) : l \in {NA, <<"e", "m">>, <<"E", "m">>}}
    \cup {StatReport(<<1>>, -1, "families", << <<"e", "m">> >>, << <<"e", "m">> >>),
          Raw("ok", "ok", 1, 1, "raw")}

\* get_cape_reports_stats.py:244-269  main is called on n reports drawn from set
InitStatsOn(set, n) ==
    /\ files \in [1..n -> set]
    /\ loc = [p \in 1..n |-> "corpus"]
    /\ reports = [k \in 1..n |-> k]
    /\ strat = "biggest"
    /\ pc = "stats"
    /\ err = "none"
    /\ DupVarsInit
    /\ ClsVarsInit
    /\ SanVarsInit
    /\ passed = <<reports>>
    /\ stats = StatsEnter(reports, VtThreshold)
    /\ st_i = 1
    /\ stats_out = NoOutput
    /\ FnVarsInit

InitStats == InitStatsOn(StatsReports, NumStatsReports)

InitLabels == InitStatsOn(LabelReports, NumLabelReports)

NextStats == StatsStep \/ StatsWrite

SpecStats == InitStats /\ [][NextStats]_vars

SpecLabels == InitLabels /\ [][NextStats]_vars

Spec == Init /\ [][Next]_vars

SpecSan == InitSan /\ [][NextSan]_vars

SpecClassify == InitClassify /\ [][NextClassify]_vars

SpecDup == InitDup /\ [][NextDup]_vars

\* ------------------------------------------- utils/rename_reports_sha256.py
\* The directory is a function from file names to contents.  The names
\* 1..NumRenFiles are names that are no sha256; NumRenFiles + h is the name
\* '<h>.json' of the sha256 value h.  A content keeps the name it had when
\* the run started (id), so that two reports are never equal.
RenNames == 1..(NumRenFiles + NumSha256)

NoFile == [id |-> 0, parse |-> FALSE, sha256 |-> 0]

\* rename_reports_sha256.py:17-18  new_full_path
NewFullPath(sha256) == NumRenFiles + sha256

\* the units a thread of the pool is running
RenRunning == {e \in Range(reports) : task[e].at \in {"loaded", "checked"}}

\* the unit submitted first among those no thread has taken
RenNextQueued ==
    LET k == CHOOSE i \in 1..Len(reports) :
                 /\ task[reports[i]].at = "queued"
                 /\ \A j \in 1..(i - 1) : task[reports[j]].at # "queued"
    IN  reports[k]

RenDone(e, result) == [task EXCEPT ![e] = [at |-> "done", sha256 |-> @.sha256, result |-> result]]

\* rename_reports_sha256.py:10-16, 25-28: a thread takes the unit of entry e,
\* opens and loads the file and reads target.file.sha256
RenLoad(e) ==
    /\ pc = "ren_pool"
    /\ task[e].at = "queued"
    /\ e = RenNextQueued
    /\ Cardinality(RenRunning) < workers
    /\ task' = IF files[e] = NoFile \/ ~files[e].parse THEN RenDone(e, "Failed")
               ELSE IF files[e].sha256 = 0 THEN RenDone(e, "SHA256 not found")
               ELSE [task EXCEPT ![e] = [at |-> "loaded", sha256 |-> files[e].sha256,
                                         result |-> "none"]]
    /\ UNCHANGED <<files, loc, reports, pc, err, strat, dupVars, clsVars, workers,
                   terms_ok, passed, statVars, fnVars>>

\* rename_reports_sha256.py:20, 23-24  os.path.exists(new_full_path)
RenExists(e) ==
    /\ pc = "ren_pool"
    /\ task[e].at = "loaded"
    /\ task' = IF files[NewFullPath(task[e].sha256)] # NoFile
               THEN RenDone(e, "Skipped (exists)")
               ELSE [task EXCEPT ![e].at = "checked"]
    /\ UNCHANGED <<files, loc, reports, pc, err, strat, dupVars, clsVars, workers,
                   terms_ok, passed, statVars, fnVars>>

\* rename_reports_sha256.py:21-22, 27-28  os.rename(full_path, new_full_path):
\* a file at the new path is replaced; FileNotFoundError if the source is gone
RenRename(e) ==
    /\ pc = "ren_pool"
    /\ task[e].at = "checked"
    /\ IF files[e] = NoFile
       THEN /\ task' = RenDone(e, "Failed")
            /\ UNCHANGED files
       ELSE /\ files' = [n \in RenNames |->
                            IF n = NewFullPath(task[e].sha256) THEN files[e]
                            ELSE IF n = e THEN NoFile
                            ELSE files[n]]
            /\ task' = RenDone(e, "Renamed")
    /\ UNCHANGED <<loc, reports, pc, err, strat, dupVars, clsVars, workers,
                   terms_ok, passed, statVars, fnVars>>

\* rename_reports_sha256.py:38-41: every future has completed, the pool is
\* shut down and rename_files returns
RenJoin ==
    /\ pc = "ren_pool"
    /\ \A e \in Range(reports) : task[e].at = "done"
    /\ pc' = "ren_ret"
    /\ UNCHANGED <<files, loc, reports, err, strat, dupVars, clsVars, sanVars,
                   passed, statVars, fnVars>>

\* the .json files a directory can hold: parseable or not, with or without
\* target.file.sha256; a file already named after a sha256 carries it
RenDirectories ==
    LET Loaded == {[parse |-> TRUE, sha256 |-> h] : h \in 0..NumSha256}
                      \cup {[parse |-> FALSE, sha256 |-> 0]}
    IN  {[n \in RenNames |->
             IF n <= NumRenFiles
             THEN [id |-> n, parse |-> own[n].parse, sha256 |-> own[n].sha256]
             ELSE IF (n - NumRenFiles) \in named
                  THEN [id |-> n, parse |-> TRUE, sha256 |-> n - NumRenFiles]
                  ELSE NoFile] :
            own \in [1..NumRenFiles -> Loaded], named \in SUBSET (1..NumSha256)}

\* the names of directory d that hold a file, in ascending order
RECURSIVE Listing(_, _)
Listing(d, n) ==
    IF n > NumRenFiles + NumSha256 THEN <<>>
    ELSE (IF d[n] # NoFile THEN <<n>> ELSE <<>>) \o Listing(d, n + 1)

\* rename_reports_sha256.py:30-36, 43-50: one unit per file of the directory
InitRename ==
    /\ files \in RenDirectories
    /\ loc = [n \in RenNames |-> "corpus"]
    /\ reports = Listing(files, 1)
    /\ strat = "biggest"
    /\ pc = "ren_pool"
    /\ err = "none"
    /\ DupVarsInit
    /\ ClsVarsInit
    /\ task = [n \in RenNames |-> [at |-> IF files[n] # NoFile THEN "queued" ELSE "done",
                                    sha256 |-> 0, result |-> "none"]]
    /\ workers \in 1..MaxWorkers
    /\ terms_ok = FALSE
    /\ passed = <<reports>>
    /\ StatVarsInit
    /\ FnVarsInit

NextRename ==
    \/ \E e \in Range(reports) : RenLoad(e)
    \/ \E e \in Range(reports) : RenExists(e)
    \/ \E e \in Range(reports) : RenRename(e)
    \/ RenJoin

SpecRename == InitRename /\ [][NextRename]_vars

\* ------------------------------------------- Duplicate Resolver: claims
\* the reports of the input list whose sha512 is h
SameHash(h) == {p \in Range(reports) : files[p].sha512 = h}

\* how many entries of list are members of set
CountIn(list, set) == Cardinality({k \in 1..Len(list) : list[k] \in set})

\* the member of a non-empty set of paths met first in the iteration order
FirstSeen(set) ==
    LET k == CHOOSE i \in 1..Len(reports) :
                 /\ reports[i] \in set
                 /\ \A j \in 1..(i - 1) : reports[j] \notin set
    IN  reports[k]

Discarded == Range(files_to_discard)

\* C1: when the Duplicate Resolver returns (either strategy), of the N > 1
\* reports sharing a sha512 exactly N-1 are entries of the discard list, and
\* after the Orchestrator's removal of the discard list every hash of the
\* input has exactly one surviving report.
C1_OneSurvivorPerHash ==
    pc = "dup_ret" =>
        \A h \in Hashes :
            LET G == SameHash(h)
                survivors == Remove(reports, files_to_discard)
            IN  /\ Cardinality(G) > 1 =>
                       CountIn(files_to_discard, G) = Cardinality(G) - 1
                /\ G # {} => CountIn(survivors, G) = 1

C1_Witness ==
    /\ pc = "dup_ret"
    /\ \E h \in Hashes : Cardinality(SameHash(h)) >= 3
    /\ Len(files_to_discard) >= 2

\* C2: with strategy 'first', when the resolver returns, in every duplicate
\* group the first-encountered report is kept and all later ones discarded.
C2_FirstKeepsFirstSeen ==
    (pc = "dup_ret" /\ strat = "first") =>
        \A h \in Hashes :
            LET G == SameHash(h)
            IN  Cardinality(G) > 1 =>
                    /\ FirstSeen(G) \notin Discarded
                    /\ G \ {FirstSeen(G)} \subseteq Discarded

\* C3: with strategy 'biggest', when the resolver returns, in every duplicate
\* group the kept report is the earliest-encountered of those of maximal size.
C3_BiggestTieKeepsEarliest ==
    (pc = "dup_ret" /\ strat = "biggest") =>
        \A h \in Hashes :
            LET G == SameHash(h)
                Max == {p \in G : \A q \in G : files[p].size >= files[q].size}
            IN  Cardinality(G) > 1 => FirstSeen(Max) \notin Discarded

\* C4: with strategy 'biggest', when the resolver returns, in every duplicate
\* group the kept report is at least as big as every discarded one.
C4_KeptIsBiggest ==
    (pc = "dup_ret" /\ strat = "biggest") =>
        \A h \in Hashes :
            \A kept \in SameHash(h) \ Discarded :
                \A d \in SameHash(h) \cap Discarded :
                    files[kept].size >= files[d].size

C4_Witness ==
    /\ pc = "dup_ret"
    /\ strat = "biggest"
    /\ \E h \in Hashes :
           /\ Cardinality(SameHash(h)) >= 3
           /\ \E kept \in SameHash(h) \ Discarded :
                  /\ kept # FirstSeen(SameHash(h))
                  /\ \A d \in SameHash(h) \cap Discarded :
                         files[kept].size > files[d].size
                  /\ \E d1, d2 \in SameHash(h) \cap Discarded :
                         files[d1].size # files[d2].size

\* --------------------------------------------- Error Classifier: claims
\* the reports process_report has been applied to and returned from
Classified == {reports[k] : k \in 1..(cls_i - 1)}

InList(p, list) == p \in Range(list)

\* how many of the five category lists hold p
OtherThanFatal(p) ==
    \/ InList(p, reports_no_processes)
    \/ InList(p, reports_no_hooked_functions)
    \/ InList(p, reports_no_vt)
    \/ InList(p, reports_vt_error)

\* C5: every classified report whose top-level 'target' is absent is in the
\* fatal list and in none of the other four lists, whatever its other fields.
C5_NoTargetIsFatalOnly ==
    \A p \in Classified :
        (files[p].parse /\ files[p].target = "absent") =>
            /\ InList(p, report_fatal)
            /\ ~OtherThanFatal(p)
            /\ pc = "cls_ret" =>
                   (InList(p, reports_with_errors) /\ ~InList(p, reports_with_vt_errors))

C5_Witness ==
    /\ pc = "cls_ret"
    /\ \E p, q \in Classified :
           /\ files[p].target = "absent" /\ files[p].behavior = "empty"
           /\ files[q].target = "absent" /\ files[q].behavior = "nohooks"
           /\ InList(p, report_fatal) /\ InList(q, report_fatal)

\* C6 as stated: every classified report whose behavior.processes is empty is
\* in no_processes, and neither in fatal nor in no_hooked_functions.
C6_EmptyProcessesOriginal ==
    \A p \in Classified :
        (files[p].parse /\ files[p].behavior = "empty") =>
            /\ InList(p, reports_no_processes)
            /\ ~InList(p, report_fatal)
            /\ ~InList(p, reports_no_hooked_functions)

\* C6 amended: every classified report that has a top-level 'target' and
\* whose behavior.processes is empty is in no_processes, and neither in fatal
\* nor in no_hooked_functions.
C6_EmptyProcessesWithTarget ==
    \A p \in Classified :
        (files[p].parse /\ files[p].target # "absent" /\ files[p].behavior = "empty") =>
            /\ InList(p, reports_no_processes)
            /\ ~InList(p, report_fatal)
            /\ ~InList(p, reports_no_hooked_functions)

C6_Witness ==
    /\ pc = "cls_ret"
    /\ \E p \in Classified :
           /\ files[p].target = "nofile" /\ files[p].behavior = "empty"
           /\ InList(p, reports_with_errors)
           /\ loc[p] = "errors"

\* C7: a report file whose JSON does not parse does not end the run; when
\* the classifier returns it is in the fatal list and in the errors area.
C7_ParseFailureIsFatal ==
    /\ err # "JSONDecodeError"
    /\ pc = "cls_ret" =>
           \A p \in Range(reports) :
               ~files[p].parse => (InList(p, report_fatal) /\ loc[p] = "errors")

\* a report that parses and has 'target' but lacks a field process_report reads
StructuralDefect(r) ==
    /\ r.parse
    /\ r.target # "absent"
    /\ \/ r.behavior \in {"absent", "noprocs", "nocalls"}
       \/ r.target = "nofile"

\* C8: a report with a missing required field does not end the run; when the
\* classifier returns it is in one of the two returned quarantine lists.
C8_StructuralDefectNeverFatal ==
    /\ err # "KeyError"
    /\ pc = "cls_ret" =>
           \A p \in Range(reports) :
               StructuralDefect(files[p]) =>
                   (InList(p, reports_with_errors) \/ InList(p, reports_with_vt_errors))

\* ------------------------------------------------- Orchestrator: claims
Excluded == Range(reports_with_errors) \cup Range(reports_with_vt_errors)

\* C9: the list handed to each phase is a subset of the list handed to the
\* phase before it; no report the Error Classifier returned is handed to a
\* later phase, and no report the Duplicate Resolver discarded is handed to
\* the phases after it.
C9_ReportSetOnlyShrinks ==
    \A j \in 2..Len(passed) :
        /\ Range(passed[j]) \subseteq Range(passed[j - 1])
        /\ Range(passed[j]) \cap Excluded = {}
        /\ j >= 3 => Range(passed[j]) \cap Range(files_to_discard) = {}

C9_Witness ==
    /\ pc = "stats"
    /\ Len(passed) = 5
    /\ reports_with_errors # <<>>
    /\ files_to_discard # <<>>
    /\ passed[5] # <<>>

\* ---------------------------------------------------- Sanitizer: claims
\* what process_file leaves in a report it has written back
Sanitized(r) ==
    /\ ~r.noise
    /\ r.environ # "raw"
    /\ r.tree = "redacted"
    /\ r.detections # "absent"

\* C10: a unit that raises does not end the phase; what a completed unit
\* wrote stays written; and when the phase returns, every report whose own
\* processing does not raise has been sanitized (and anonymized, when the
\* terms file can be read), whatever happened to the other units.
C10_FailureDoesNotAbortPool ==
    /\ err = "none"
    /\ \A p \in Range(reports) :
           task[p] = "done" => (Sanitized(files[p]) /\ files[p].anonymized)
    /\ pc = "san_ret" =>
           \A p \in Range(reports) :
               ~StructuralRaises(files[p]) =>
                   /\ Sanitized(files[p])
                   /\ terms_ok => (task[p] = "done" /\ files[p].anonymized)

C10_Witness ==
    /\ pc = "san_ret"
    /\ workers = 1
    /\ task[reports[1]] = "failed"
    /\ \A k \in 2..Len(reports) :
           task[reports[k]] = "done" /\ Sanitized(files[reports[k]])

\* ------------------------------------------------ Orchestrator: phase barrier
\* the positions of the program before the Duplicate Resolver has returned
BeforeResolverReturned == {"cls_loop", "cls_ret", "dup_search", "dup_move"}

\* a sanitization unit that a worker has taken
Started(p) == task[p] \in {"running", "written", "done", "failed"}

\* C11: the phases are sequential with a barrier between them: no
\* sanitization unit has started while the Duplicate Resolver has not yet
\* returned, and once the Stats Aggregator has been called (the fifth list has
\* been handed over) every submitted sanitization unit has finished, with
\* success or not.
C11_PhaseBarrier ==
    /\ pc \in BeforeResolverReturned => \A p \in DOMAIN task : ~Started(p)
    /\ Len(passed) = 5 => \A p \in DOMAIN task : task[p] \in {"none", "done", "failed"}

\* the Stats Aggregator has read a report while one unit had failed and
\* another had succeeded
C11_Witness ==
    /\ pc = "stats"
    /\ st_i > 1
    /\ \E p, q \in Range(reports) : task[p] = "failed" /\ task[q] = "done"

\* ------------------------------------------------- environ redaction: claims
\* the values of 'environ' of the dict nodes reachable from node n through
\* 'children' sequences and list elements
RECURSIVE EnvironsUnder(_)
EnvironsUnder(n) ==
    (IF n.kind = "dict" /\ n.environ # "none" THEN {n.environ} ELSE {})
    \cup UNION {EnvironsUnder(n.children[k]) : k \in 1..Len(n.children)}

\* the nesting depth of node n
RECURSIVE Depth(_)
Depth(n) ==
    IF n.children = <<>> THEN 0
    ELSE LET below == {Depth(n.children[k]) : k \in 1..Len(n.children)}
         IN  1 + CHOOSE m \in below : \A o \in below : o <= m

\* C12: after delete_environ_recursive has run on a tree, of any depth and
\* mixing dict and list nodes, every dict node reachable from the root through
\* 'children' sequences and list elements that has 'environ' has it equal to
\* the redaction marker.
C12_EveryReachableEnvironRedacted ==
    applied >= 1 => EnvironsUnder(data.processtree) \subseteq {"redacted"}

\* a redacted tree of the greatest depth whose root is a list holding a dict
\* without 'environ': the redacted 'environ' lies deeper
C12_Witness ==
    /\ applied = 1
    /\ Depth(data.processtree) = MaxDepth
    /\ data.processtree.kind = "list"
    /\ Len(data.processtree.children) = 1
    /\ data.processtree.children[1].kind = "dict"
    /\ data.processtree.children[1].environ = "none"
    /\ EnvironsUnder(data.processtree) = {"redacted"}

\* C13: the environ redaction is idempotent: on a 'behavior' section that has
\* been sanitized, sanitizing again leaves every 'environ' of
\* behavior.processes and of behavior.processtree as it is.
C13_RedactionIdempotent ==
    applied >= 1 => RedactBehavior(data) = data

\* the redaction has been applied twice to a section with 'environ' in a
\* record of behavior.processes and in the process tree
C13_Witness ==
    /\ applied = 2
    /\ \E k \in 1..Len(data.processes) : data.processes[k] = "redacted"
    /\ "redacted" \in EnvironsUnder(data.processtree)

\* ------------------------------------------------- term anonymization: claims
\* the term occurs in s as a literal string
Occurs(term, s) ==
    \E i \in 1..Len(s) :
        /\ i + Len(term) - 1 <= Len(s)
        /\ \A k \in 1..Len(term) : s[i + k - 1] = term[k]

\* C14: after anonymize_report has run, the text of the file holds no
\* occurrence, as a literal string, of any term of the terms file (also when a
\* term overlaps the marker or another term).
C14_NoTermRemains ==
    sed_run => \A k \in 1..Len(terms) : ~Occurs(terms[k], text)

\* --------------------------------------------------- Stats Aggregator: claims
\* the reports the loop of main has gone through
Processed == {reports[k] : k \in 1..(st_i - 1)}

\* len(cape_report['behavior']['processes']) can be evaluated on report p
ProcessesReadable(p) ==
    files[p].parse /\ files[p].behavior \notin {"absent", "noprocs"}

\* the sum of f over a finite set of paths
RECURSIVE SumOver(_, _)
SumOver(f(_), set) ==
    IF set = {} THEN 0
    ELSE LET p == CHOOSE p \in set : TRUE IN f(p) + SumOver(f, set \ {p})

NumProcesses(p) == Len(files[p].calls)

\* C15: while and after the ReportSet is processed, the running total of
\* spawned processes is the sum of len(behavior.processes) over the reports gone
\* through, the minimum and maximum trackers hold the smallest and the largest
\* of these counts, and the average written is that total divided by the number
\* of reports of the set.
C15_SpawnedProcesses ==
    LET read == {p \in Processed : ProcessesReadable(p)}
        counts == {NumProcesses(p) : p \in read}
    IN  pc \in {"stats", "stats_ret"} =>
            /\ stats.total_spawned_processes = SumOver(NumProcesses, read)
            /\ read # {} =>
                   /\ stats.min_spawned_processes[1] \in counts
                   /\ stats.max_spawned_processes[1] \in counts
                   /\ \A c \in counts : /\ stats.min_spawned_processes[1] <= c
                                        /\ c <= stats.max_spawned_processes[1]
            /\ stats_out.written =>
                   stats_out.statistics.average_spawned_processes =
                       <<SumOver(NumProcesses, read), Len(reports)>>

\* reports with 1, 5 and 3 processes: minimum 1, maximum 5, total 9, and the
\* average 9 / 3 has been written
C15_Witness ==
    /\ pc = "stats_ret"
    /\ [k \in 1..Len(reports) |-> NumProcesses(reports[k])] = <<1, 5, 3>>
    /\ stats.min_spawned_processes[1] = 1
    /\ stats.max_spawned_processes[1] = 5
    /\ stats_out.statistics.average_spawned_processes = <<9, 3>>

\* the VT positives of report p were read by process_report
PositivesRead(p) ==
    /\ ProcessesReadable(p)
    /\ files[p].behavior # "nocalls"
    /\ VTReadable(files[p])

Positives(p) == files[p].positives

\* C16: the running sum of VT positives is the sum of
\* target.file.virustotal.positives over the reports gone through whose value
\* could be read, and the 'Average VT detections' written is that sum divided
\* by the number of reports.
C16_VTPositivesSum ==
    LET read == {p \in Processed : PositivesRead(p)}
    IN  pc \in {"stats", "stats_ret"} =>
            /\ stats.total_vt_positives = SumOver(Positives, read)
            /\ stats_out.written =>
                   stats_out.statistics.average_vt_detections =
                       <<SumOver(Positives, read), Len(reports)>>

\* process_report appended a CAPE label for report p: "(n/a)" or its families
CapeTallied(p) ==
    /\ PositivesRead(p)
    /\ files[p].positives # 0
    /\ files[p].detections # "absent"

\* the CAPE families of report p were tallied by process_report
FamiliesTallied(p) == CapeTallied(p) /\ files[p].detections = "families"

\* two family names that differ only in the case of their first letter
FirstLetterCaseOnly(f, g) ==
    /\ Len(f) = Len(g)
    /\ {f[1], g[1]} = {"e", "E"}
    /\ \A k \in 2..Len(f) : f[k] = g[k]

\* C17: two reports with nonzero VT positives whose CAPE family names differ
\* only in the case of the first letter ('Emotet', 'emotet') are tallied into
\* one bucket: when they are the only reports tallied, the CAPE detections
\* written are a single label with count 2.
C17_FirstLetterCaseOneBucket ==
    \A p, q \in Range(reports) :
        ( /\ stats_out.written
          /\ {r \in Range(reports) : CapeTallied(r)} = {p, q}
          /\ FamiliesTallied(p)
          /\ FamiliesTallied(q)
          /\ Len(files[p].families) = 1
          /\ Len(files[q].families) = 1
          /\ FirstLetterCaseOnly(files[p].families[1], files[q].families[1]) )
        => /\ Len(stats_out.statistics.cape_detections) = 1
           /\ stats_out.statistics.cape_detections[1][2] = 2

\* 'Em' and 'em' have been tallied as <<'Em', 2>>
C17_Witness ==
    /\ stats_out.written
    /\ \E p, q \in Range(reports) :
           /\ FamiliesTallied(p) /\ files[p].families = << <<"E", "m">> >>
           /\ FamiliesTallied(q) /\ files[q].families = << <<"e", "m">> >>
    /\ stats_out.statistics.cape_detections = << << <<"E", "m">>, 2 >> >>

\* ----------------------------------------------- zero-report corpus: claim
\* C18: a corpus whose final ReportSet is empty is handled without failure:
\* once the Stats Aggregator has been called with the empty list the run does
\* not end on an exception (it writes its results, returns three empty lists
\* and the Orchestrator reaches its summary).
C18_EmptyReportSetHandled ==
    (Len(passed) = 5 /\ passed[5] = <<>>) => pc # "crashed"

\* ------------------------------------- Duplicate Resolver: missing sha512
\* report p has no target.file.sha512
MissingSha512(p) == files[p].sha512 = 0

\* C19: when a report of the input has no target.file.sha512 the Duplicate
\* Resolver fails loudly: it never returns a discard list, the loop never
\* goes past that report (it is neither skipped nor grouped), the exception
\* that ends the run is KeyError, and no report file has left the corpus.
C19_MissingSha512FailsLoudly ==
    (\E p \in Range(reports) : MissingSha512(p)) =>
        /\ pc \in {"dup_search", "crashed"}
        /\ pc = "crashed" => err = "KeyError"
        /\ \A k \in 1..(dup_i - 1) : ~MissingSha512(reports[k])
        /\ \A h \in Keys : \A k \in 1..Len(duplicate_reports[h]) :
               ~MissingSha512(duplicate_reports[h][k].path)
        /\ files_to_discard = <<>>
        /\ \A p \in DOMAIN loc : loc[p] = "corpus"

\* the run has ended on KeyError after a group of duplicates had been found,
\* and every file is still in the corpus
C19_Witness ==
    /\ pc = "crashed"
    /\ err = "KeyError"
    /\ group_order # <<>>
    /\ MissingSha512(reports[dup_i])
    /\ \A p \in DOMAIN loc : loc[p] = "corpus"

\* ------------------------------------- Stats Aggregator input: claim
\* C20: every report of the ReportSet handed to the Stats Aggregator has been
\* sanitized with success: no section of the fixed set is present, every
\* 'environ' is redacted and 'detections' exists; a report whose sanitization
\* failed is not in the set.
C20_StatsInputSanitized ==
    Len(passed) = 5 =>
        \A p \in Range(passed[5]) : Sanitized(files[p]) /\ task[p] = "done"

\* --------------------------------------------- Stats Aggregator: trackers
\* the values report p contributes to each tracked quantity
SpawnedValues(p) == IF ProcessesReadable(p) THEN {NumProcesses(p)} ELSE {}

HookedValues(p) ==
    IF ProcessesReadable(p) /\ files[p].behavior # "nocalls"
    THEN Range(files[p].calls) ELSE {}

VTValues(p) == IF PositivesRead(p) THEN {Positives(p)} ELSE {}

\* the tracker holds the extreme of the values of the reports and the first
\* report that attained it (a path is the position of the report in the list)
TrackerHolds(tracker, Values(_), isMax) ==
    LET having == {p \in Range(reports) : Values(p) # {}}
        all == UNION {Values(p) : p \in having}
    IN  having # {} =>
            LET m == CHOOSE m \in all :
                         \A o \in all : IF isMax THEN o <= m ELSE m <= o
                first == CHOOSE p \in having :
                             /\ m \in Values(p)
                             /\ \A q \in having : m \in Values(q) => p <= q
            IN  tracker = <<m, first>>

\* C21: once every report has been processed, each of the six trackers
\* (minimum and maximum of spawned processes per report, of hooked functions
\* per process, of VT positives per report) holds the true extreme of the
\* processed values and, as exemplar, the first report in iteration order that
\* attained it, also when the extreme is 0.
C21_TrackersHoldFirstExtreme ==
    (pc \in {"stats", "stats_ret"} /\ st_i > Len(reports)) =>
        /\ TrackerHolds(stats.min_spawned_processes, SpawnedValues, FALSE)
        /\ TrackerHolds(stats.max_spawned_processes, SpawnedValues, TRUE)
        /\ TrackerHolds(stats.min_hooked_functions, HookedValues, FALSE)
        /\ TrackerHolds(stats.max_hooked_functions, HookedValues, TRUE)
        /\ TrackerHolds(stats.min_vt_positives, VTValues, FALSE)
        /\ TrackerHolds(stats.max_vt_positives, VTValues, TRUE)

\* ------------------------------------------- Stats Aggregator: label tallies
\* s with its first character upper-cased and the others as they are
FirstUpperOnly(s) == [k \in 1..Len(s) |-> IF k = 1 THEN Upper(s[k]) ELSE s[k]]

\* s with its first character upper-cased and the others lower-cased
FirstUpperRestLower(s) ==
    [k \in 1..Len(s) |-> IF k = 1 THEN Upper(s[k]) ELSE Lower(s[k])]

\* the CAPE labels tallied are the sentinel and Norm(s) for the family names s
\* of the reports gone through whose families were tallied
CapeLabelsAre(Norm(_)) ==
    /\ \A p \in Processed :
           FamiliesTallied(p) =>
               \A k \in 1..Len(files[p].families) :
                   Norm(files[p].families[k]) \in Range(stats.cape_detection_labels)
    /\ \A l \in Range(stats.cape_detection_labels) :
           \/ l = NA
           \/ \E p \in Processed :
                  /\ FamiliesTallied(p)
                  /\ \E k \in 1..Len(files[p].families) : l = Norm(files[p].families[k])

\* C22 as stated: the label tallied for a family name s is s with only its
\* first character upper-cased, the rest unchanged.
C22_FirstUpperRestUnchanged ==
    pc \in {"stats", "stats_ret"} => CapeLabelsAre(FirstUpperOnly)

\* C22: the label tallied for a family name s is s with its first character
\* upper-cased and every other character lower-cased.
C22_FirstUpperRestLowered ==
    pc \in {"stats", "stats_ret"} => CapeLabelsAre(FirstUpperRestLower)

\* 'eM' has been tallied as 'Em'
C22_Witness ==
    /\ stats_out.written
    /\ \E p \in Range(reports) :
           FamiliesTallied(p) /\ files[p].families = << <<"e", "M">> >>
    /\ \E k \in 1..Len(stats_out.statistics.cape_detections) :
           stats_out.statistics.cape_detections[k][1] = <<"E", "m">>

\* process_report reached the AVClass block on report p, which has the field
AVClassReached(p) ==
    /\ PositivesRead(p)
    /\ files[p].detections # "absent"
    /\ files[p].avclass # <<>>

\* how many entries of list are equal to x
Occurrences(list, x) == Cardinality({k \in 1..Len(list) : list[k] = x})

\* C23: the value of 'avclass_detection' is case-normalized before use: a
\* report is recorded as no-AVClass-consensus exactly when the normalized
\* value is '(n/a)', otherwise the normalized family is what is tallied, so
\* that labels differing only in capitalization share a bucket.
C23_AVClassNormalizedTally ==
    pc \in {"stats", "stats_ret"} =>
        /\ \A p \in Processed :
               AVClassReached(p) =>
                   LET label == FirstUpperRestLower(files[p].avclass[1])
                   IN  /\ label \in Range(stats.avclass_detection_labels)
                       /\ label = NA <=>
                              p \in Range(stats.reports_no_avclass_consensus)
        /\ \A l \in Range(stats.avclass_detection_labels) :
               \E p \in Processed :
                   AVClassReached(p) /\ l = FirstUpperRestLower(files[p].avclass[1])

\* what report p adds to the CAPE label tally
CapeContribution(p) ==
    IF ~CapeTallied(p) THEN 0
    ELSE IF files[p].detections = "(n/a)" THEN 1 ELSE Len(files[p].families)

\* 'detections' of report p is the sentinel and its VT positives are nonzero
NoCapeConsensus(p) ==
    /\ files[p].detections = "(n/a)"
    /\ files[p].target = "ok"
    /\ files[p].positives > 0

\* C24: a report is in the no-consensus list, once, and the sentinel is
\* tallied once for it, if and only if its 'detections' is the sentinel and
\* its VT positives are nonzero; a report with zero VT positives adds nothing
\* to the label tally nor to the no-consensus list.
C24_CapeConsensusRule ==
    pc \in {"stats", "stats_ret"} =>
        /\ \A p \in Processed :
               Occurrences(stats.reports_no_cape_consensus, p) =
                   IF NoCapeConsensus(p) THEN 1 ELSE 0
        /\ Range(stats.reports_no_cape_consensus) \subseteq Processed
        /\ Occurrences(stats.cape_detection_labels, NA) =
               Cardinality({p \in Processed : NoCapeConsensus(p)})
        /\ Len(stats.cape_detection_labels) = SumOver(CapeContribution, Processed)

\* a report with the sentinel and nonzero positives is in the list that has
\* been returned, one with the sentinel and zero positives is not
C24_Witness ==
    /\ stats_out.returned
    /\ \E p, q \in Range(reports) :
           /\ files[p].detections = "(n/a)" /\ files[p].positives = 1
           /\ files[q].detections = "(n/a)" /\ files[q].positives = 0
           /\ p \in Range(stats_out.no_cape_consensus)
           /\ q \notin Range(stats_out.no_cape_consensus)

\* ------------------------------------------- Stats Aggregator: VT block
\* the VT positives of report p are missing or cannot be read
PositivesMissing(p) == files[p].target # "ok" \/ files[p].positives < 0

\* the fields of the ReportStats object written from the VT block onwards
VTAndLabelFields(acc) ==
    <<acc.total_vt_positives, acc.min_vt_positives, acc.max_vt_positives,
      acc.no_vt_positives, acc.cape_detection_labels,
      acc.avclass_detection_labels, acc.reports_no_cape_consensus,
      acc.reports_no_avclass_consensus>>

\* C25: the iteration of the aggregator on a report whose VT positives are
\* missing or unreadable changes none of the VT statistics (sum, minimum and
\* maximum, undetected list), neither label tally and neither no-consensus
\* list, and the aggregator goes on to the next report.
C25_MissingPositivesSkipped ==
    [][(pc = "stats" /\ st_i <= Len(reports) /\ PositivesMissing(reports[st_i]))
           => /\ VTAndLabelFields(stats') = VTAndLabelFields(stats)
              /\ st_i' = st_i + 1
              /\ pc' = "stats"
              /\ err' = err]_vars

\* a report without readable positives, whose processes were counted, has been
\* gone through and a later report of the set has been tallied
C25_Witness ==
    /\ stats_out.returned
    /\ \E k, j \in 1..Len(reports) :
           /\ k < j
           /\ ProcessesReadable(reports[k])
           /\ files[reports[k]].behavior = "ok"
           /\ PositivesMissing(reports[k])
           /\ reports[j] \in Range(stats_out.undetected)
           /\ reports[k] \notin Range(stats_out.undetected)

HashGroup(p) == {q \in DOMAIN files : files[q].sha512 = files[p].sha512}

\* C27: move_duplicate_reports relocates exactly the reports it returns as
\* discarded, each exactly once; when it returns, one member of every group
\* and every report whose hash was seen only once are still in place and are
\* not entries of the discard list.
C27_RelocatesExactlyDiscarded ==
    /\ \A p \in DOMAIN files :
           Occurrences(files_to_discard, p) = IF loc[p] = "corpus" THEN 0 ELSE 1
    /\ \A p \in DOMAIN files : loc[p] \in {"corpus", "duplicates"}
    /\ pc = "dup_ret" =>
           \A p \in DOMAIN files :
               /\ Cardinality({q \in HashGroup(p) : loc[q] = "corpus"}) = 1
               /\ HashGroup(p) = {p} => p \notin Discarded

\* the resolver has returned after moving one member of a group of two, the
\* other member and a report with a hash of its own being left in place
C27_Witness ==
    /\ pc = "dup_ret"
    /\ \E p, q, s \in DOMAIN files :
           /\ HashGroup(p) = {p, q} /\ p # q
           /\ HashGroup(s) = {s}
           /\ files_to_discard = <<p>>
           /\ loc[p] = "duplicates" /\ loc[q] = "corpus" /\ loc[s] = "corpus"

\* ------------------------------------------------ Sanitizer: independence
\* what process_file leaves in a file of content r when it is run on that
\* file alone, the terms file being readable or not
ProcessedAlone(r, readable) ==
    IF StructuralRaises(r) THEN r
    ELSE IF readable THEN [Structural(r) EXCEPT !.anonymized = TRUE]
    ELSE Structural(r)

\* C28: for any number of workers and any interleaving of the units, the
\* content of every file depends only on how far its own unit has got: it is
\* the original content until the unit writes, and once the unit has finished
\* it is what processing that report alone produces; when the Sanitizer
\* returns this holds of every report, and the ReportSet is unchanged.
C28_UnitsIndependent ==
    pc \in {"san_pool", "san_ret"} =>
        /\ \A p \in DOMAIN files :
               files[p] =
                   IF task[p] \in {"none", "queued", "running"} THEN original[p]
                   ELSE IF task[p] = "written" THEN Structural(original[p])
                   ELSE ProcessedAlone(original[p], terms_ok)
        /\ reports = passed[1]
        /\ \A p \in DOMAIN files : loc[p] = "corpus"
        /\ pc = "san_ret" =>
               \A p \in Range(reports) :
                   files[p] = ProcessedAlone(original[p], terms_ok)

\* two workers have been running: one unit has finished and rewritten its
\* file while another, taken at the same time, has only written the document back
C28_Witness ==
    /\ pc = "san_pool"
    /\ workers = 2
    /\ \E p, q \in Range(reports) :
           /\ task[p] = "done" /\ files[p] # original[p]
           /\ task[q] = "written" /\ files[q] # original[q]
           /\ ~files[q].anonymized

\* ------------------------------------------- Error Classifier: partition
\* the five category lists of the classifier, one after the other
AllCategories ==
    report_fatal \o reports_no_processes \o reports_no_hooked_functions
        \o reports_no_vt \o reports_vt_error

\* C29: the five category lists of the Error Classifier are pairwise disjoint
\* (no report is an entry of two lists, or twice of one), hence the two sets
\* it returns are disjoint, and write_results relocates each excluded report
\* exactly once: no rename finds its file already moved, and on return a
\* report is in the staging area of the set that holds it, or in place.
C29_CategoriesPartition ==
    /\ \A p \in DOMAIN files : Occurrences(AllCategories, p) <= 1
    /\ err # "FileNotFoundError"
    /\ pc = "cls_ret" =>
           /\ Range(reports_with_errors) \cap Range(reports_with_vt_errors) = {}
           /\ \A p \in DOMAIN files :
                  /\ Occurrences(reports_with_errors \o reports_with_vt_errors, p) <= 1
                  /\ loc[p] = IF p \in Range(reports_with_errors) THEN "errors"
                              ELSE IF p \in Range(reports_with_vt_errors) THEN "vt_errors"
                              ELSE "corpus"

\* the classifier has returned with a report in each of its two sets, both
\* relocated, and a third report left in place
C29_Witness ==
    /\ pc = "cls_ret"
    /\ \E p, q, s \in DOMAIN files :
           /\ reports_with_errors = <<p>> /\ loc[p] = "errors"
           /\ reports_with_vt_errors = <<q>> /\ loc[q] = "vt_errors"
           /\ loc[s] = "corpus"

\* ------------------------------------------------- rename utility: claims
\* the report that was in the directory under name n is still in it
StillThere(n) == \E m \in RenNames : files[m] = original[n]

\* C30: renaming never overwrites an existing '<sha256>.json' and never loses
\* a report: every report of the directory is still in it, and when the
\* utility returns each report with a sha256 is either under its original
\* name or under '<sha256>.json', exactly one report of each sha256 having
\* that name, whatever the interleaving of the threads.
C30_RenameNeverLosesReport ==
    /\ \A n \in RenNames : original[n] # NoFile => StillThere(n)
    /\ pc = "ren_ret" =>
           \A n \in RenNames :
               (original[n] # NoFile /\ original[n].sha256 # 0) =>
                   /\ files[NewFullPath(original[n].sha256)] # NoFile
                   /\ \/ files[n] = original[n]
                      \/ files[NewFullPath(original[n].sha256)] = original[n]

====
